---- MODULE Spec2Model ----
(***************************************************************************)
(* Model of src/src/hal.rs: the Hal capability trait and the owned DMA     *)
(* buffer Dma<H> that allocates through it on construction and releases    *)
(* through it on drop.                                                     *)
(*                                                                         *)
(* The Hal implementation is the environment: what dma_alloc, dma_dealloc  *)
(* and phys_to_virt return is chosen nondeterministically from small sets. *)
(*                                                                         *)
(* A panic (assert_eq! in drop, unwrap and the overflow check in           *)
(* raw_slice) has one of two outcomes, and which one is for the build and  *)
(* the caller to decide.  It is fatal, and the process aborts, in a build  *)
(* whose panic strategy is abort, and in any build when it is raised while *)
(* the thread already unwinds: in a drop that unwinding runs after a panic *)
(* of the caller or of this module, or in a destructor of the caller that  *)
(* unwinding runs.  Otherwise the panicking scope unwinds and the process  *)
(* goes on: unwinding drops the buffers the scope owns through Drop::drop, *)
(* destructors of the caller and other threads still call the accessors of *)
(* a buffer until it is dropped, and other threads run any operation.      *)
(*                                                                         *)
(* usize is 64 bits wide.  Page counts and lengths in bytes are kept as    *)
(* four 16-bit limbs, least significant first, so that pages * PAGE_SIZE   *)
(* overflows as it does in the code: a panic in a build with overflow      *)
(* checks, the product modulo 2^64 in a build without.                     *)
(***************************************************************************)
EXTENDS Integers, Sequences, FiniteSets

\* ------------------------------------------------------------------ bounds

\* Number of independent holders (variables that may own a Dma value).
NumHolders == 2
\* Physical addresses the Hal hands out are 0, PAGE_SIZE, ...,
\* MaxFrames * PAGE_SIZE; it may hand out the same one twice.
MaxFrames == 2
\* Successful allocations over a whole run.
MaxAllocs == 2
\* Times the platform changes its physical-to-virtual translation.
MaxRemaps == 1
\* Length in bytes of the caller-owned buffer handed to share/unshare.
BufLen == 1

\* --------------------------------------------------------------- constants

\* crate::PAGE_SIZE, imported at hal.rs:4.
PAGE_SIZE == 4096

\* usize: one limb holds 16 bits, a value is four limbs (64 bits).
LimbBase == 65536

Holders == 1..NumHolders

\* The usize value of a small number n (n < LimbBase * LimbBase).
usize(n) == <<n % LimbBase, n \div LimbBase, 0, 0>>

\* usize multiplication x * k for a small k (k < LimbBase \div 2): the product
\* modulo 2^64 as wrapping_mul gives it, and whether it overflowed.
usize_mul(x, k) ==
    LET t1 == x[1] * k
        t2 == x[2] * k + (t1 \div LimbBase)
        t3 == x[3] * k + (t2 \div LimbBase)
        t4 == x[4] * k + (t3 \div LimbBase) IN
    [wrapped |-> <<t1 % LimbBase, t2 % LimbBase, t3 % LimbBase, t4 % LimbBase>>,
     overflow |-> (t4 \div LimbBase) # 0]

\* The least page count whose length in bytes does not fit in usize, plus one:
\* 2^64 / PAGE_SIZE + 1.
OverflowingPages == <<1, 0, 0, LimbBase \div PAGE_SIZE>>

\* enum BufferDirection
BufferDirection == {"DriverToDevice", "DeviceToDriver", "Both"}

\* Sample of usize values used as PhysAddr and VirtAddr (both are usize).
Addrs == {i * PAGE_SIZE : i \in 0..MaxFrames}

\* type PhysAddr = usize
PhysAddr == Addrs

\* type VirtAddr = usize
VirtAddr == Addrs

\* Sample of the i32 status dma_dealloc returns: success and two failures.
DeallocStatus == {-1, 0, 1}

\* Page counts a caller passes to Dma::new.
PageCounts == {usize(0), usize(1), OverflowingPages}

\* Contents of one byte of a shared buffer.
Bytes == {0, 1}

\* ------------------------------------------------------------------- state

VARIABLES
    dma,        \* dma[h]: the Dma value holder h owns, or NoDma
    pc,         \* "running", or "aborted" once the process has aborted
    overflow_checks, \* the build checks arithmetic for overflow (debug) or wraps
    translate,  \* the Hal's current phys_to_virt mapping
    epoch,      \* how many times the translation has changed
    last,       \* the most recent Dma operation: what it called and returned
    granted,    \* granted[h]: what dma_alloc returned for h's live buffer
    lease,      \* lease[h]: index in freed of h's live allocation, or 0
    freed,      \* freed[i]: dma_dealloc calls made for the i-th allocation
    buffer,     \* contents of the caller-owned buffer used with share
    shadow,     \* the copy-based Hal's shared region, <<>> when not shared
    shared,     \* direction of the outstanding share, or "none"
    orig,       \* contents of buffer when the outstanding share began
    written,    \* written[i]: the last byte the device wrote at i, or -1
    unshared    \* the last unshare: its direction, and orig and written then

vars == <<dma, pc, overflow_checks, translate, epoch, last, granted, lease, freed,
          buffer, shadow, shared, orig, written, unshared>>

dmaVars == <<dma, pc, overflow_checks, last, granted, lease, freed>>
panicVars == <<pc, overflow_checks>>
halVars == <<translate, epoch>>
shareVars == <<buffer, shadow, shared, orig, written, unshared>>

\* A holder that owns no buffer.
NoDma == [live |-> FALSE, paddr |-> 0, pages |-> usize(0)]

\* struct Dma { paddr, pages, _phantom }
Dma(p, n) == [live |-> TRUE, paddr |-> p, pages |-> n]

\* No allocation on record for a holder.
NoGrant == [paddr |-> 0, pages |-> usize(0)]

\* ------------------------------------------------------------ Hal calls

\* H::dma_alloc(pages, direction) returning ret
dma_alloc(n, dir, ret) ==
    [fn |-> "dma_alloc", paddr |-> 0, pages |-> n, direction |-> dir, ret |-> ret]

\* H::dma_dealloc(paddr, pages) returning ret
dma_dealloc(p, n, ret) ==
    [fn |-> "dma_dealloc", paddr |-> p, pages |-> n, direction |-> "none", ret |-> ret]

\* H::phys_to_virt(paddr): the translation as it stands now
phys_to_virt(p) == translate[p]

\* The record of one H::phys_to_virt call
phys_to_virt_call(p) ==
    [fn |-> "phys_to_virt", paddr |-> p, pages |-> usize(0), direction |-> "none",
     ret |-> phys_to_virt(p)]

\* ------------------------------------------------------- results of calls

Ok(d) == [tag |-> "Ok", val |-> d.paddr, len |-> d.pages]
Err(e) == [tag |-> e, val |-> 0, len |-> usize(0)]
Usize(v) == [tag |-> "usize", val |-> v, len |-> usize(0)]
Slice(a, n) == [tag |-> "NonNull", val |-> a, len |-> n]
Unit == [tag |-> "unit", val |-> 0, len |-> usize(0)]
Panic == [tag |-> "panic", val |-> 0, len |-> usize(0)]

\* What an operation keeps of the operation before it.
Summary(e) ==
    [op |-> e.op, pages |-> e.pages, direction |-> e.direction,
     calls |-> e.calls, ret |-> e.ret, epoch |-> e.epoch]

NoSummary ==
    [op |-> "none", pages |-> usize(0), direction |-> "none",
     calls |-> <<>>, ret |-> Unit, epoch |-> 0]

NoOp ==
    [holder |-> 0, op |-> "none", pages |-> usize(0), direction |-> "none",
     calls |-> <<>>, ret |-> Unit, epoch |-> 0, after |-> NoSummary]

\* The pairs of operations on one buffer, the second directly after the first,
\* of which the record of the second keeps the first: a drop right after the
\* construction, and a vaddr right after a vaddr.
Follows(op, before) ==
    \/ op = "drop" /\ before = "new"
    \/ op = "vaddr" /\ before = "vaddr"

\* One operation on holder h's buffer: its name, the arguments of Dma::new,
\* the Hal calls it made in order, what it returned, the translation epoch it
\* ran in, and the operation on the same buffer it directly followed, where
\* Follows says to keep it.
Entry(h, op, n, dir, calls, ret) ==
    [holder |-> h, op |-> op, pages |-> n, direction |-> dir,
     calls |-> calls, ret |-> ret, epoch |-> epoch,
     after |-> IF last.holder = h /\ Follows(op, last.op)
               THEN Summary(last) ELSE NoSummary]

\* No unshare on record.
NoUnshare == [direction |-> "none", orig |-> <<>>, written |-> <<>>]

\* ------------------------------------------------------------------- Init

Init ==
    /\ dma = [h \in Holders |-> NoDma]
    /\ pc = "running"
    /\ overflow_checks \in BOOLEAN
    /\ translate = [p \in PhysAddr |-> p]
    /\ epoch = 0
    /\ last = NoOp
    /\ granted = [h \in Holders |-> NoGrant]
    /\ lease = [h \in Holders |-> 0]
    /\ freed = <<>>
    /\ buffer = [i \in 1..BufLen |-> 0]
    /\ shadow = <<>>
    /\ shared = "none"
    /\ orig = <<>>
    /\ written = <<>>
    /\ unshared = NoUnshare

\* ------------------------------------------------------------- Dma::new

\* Dma::new with the zero check left out.
new_result_unchecked(p, n) == Ok(Dma(p, n))

\* Dma::new testing the page count instead of the address.
new_result_checks_pages(p, n) ==
    IF n = usize(0) THEN Err("DmaError") ELSE Ok(Dma(p, n))

\* Dma::new after H::dma_alloc returned p: the zero sentinel is the failure.
new_result(p, n) ==
    IF p = 0 THEN Err("DmaError") ELSE Ok(Dma(p, n))

\* Dma::new trying the allocation a second time when the first one fails.
new_calls_retry(n, dir, p) ==
    IF p = 0 THEN <<dma_alloc(n, dir, p), dma_alloc(n, dir, p)>>
    ELSE <<dma_alloc(n, dir, p)>>

\* The Hal calls of Dma::new: one H::dma_alloc, whatever it returns.
new_calls(n, dir, p) == <<dma_alloc(n, dir, p)>>

\* Dma::new(pages, direction) by holder h, the Hal returning p.
New(h, n, dir, p) ==
    LET r == new_result(p, n) IN
    /\ pc = "running"
    /\ ~dma[h].live
    /\ Len(freed) < MaxAllocs
    /\ last' = Entry(h, "new", n, dir, new_calls(n, dir, p), r)
    /\ IF r.tag = "Ok"
       THEN /\ dma' = [dma EXCEPT ![h] = Dma(r.val, r.len)]
            /\ granted' = [granted EXCEPT ![h] = [paddr |-> p, pages |-> n]]
            /\ freed' = Append(freed, 0)
            /\ lease' = [lease EXCEPT ![h] = Len(freed) + 1]
       ELSE UNCHANGED <<dma, granted, freed, lease>>
    /\ UNCHANGED <<panicVars, halVars, shareVars>>

\* ------------------------------------------------------------- panics

\* A panic: fatal, and the process aborts (the build's panic strategy is abort,
\* or the panic is raised while the thread unwinds); or not, and the scope
\* unwinds while the process goes on.
Panics(fatal) ==
    /\ pc' = IF fatal THEN "aborted" ELSE pc
    /\ UNCHANGED overflow_checks

\* No panic.
Returns == UNCHANGED panicVars

\* ----------------------------------------------------------- accessors

\* Dma::paddr returning the other field of the struct.
paddr_other_field(d) == d.pages[1]

\* Dma::paddr
paddr(d) == d.paddr

\* Dma::paddr called on holder h's buffer.
Paddr(h) ==
    /\ pc = "running"
    /\ dma[h].live
    /\ last' = Entry(h, "paddr", usize(0), "none", <<>>, Usize(paddr(dma[h])))
    /\ UNCHANGED <<dma, panicVars, granted, lease, freed, halVars, shareVars>>

\* Dma::vaddr answering from the translation in force at construction (the
\* identity of Init) instead of asking the Hal again.
vaddr_cached(d) == d.paddr

\* Dma::vaddr
vaddr(d) == phys_to_virt(d.paddr)

\* Dma::vaddr called on holder h's buffer.
Vaddr(h) ==
    /\ pc = "running"
    /\ dma[h].live
    /\ last' = Entry(h, "vaddr", usize(0), "none", <<phys_to_virt_call(dma[h].paddr)>>,
                     Usize(vaddr(dma[h])))
    /\ UNCHANGED <<dma, panicVars, granted, lease, freed, halVars, shareVars>>

\* Dma::raw_slice: self.vaddr() is evaluated first, then self.pages * PAGE_SIZE,
\* which panics on overflow in a build with overflow checks and wraps in one
\* without; then NonNull::new(..).unwrap() panics on a null address.
raw_slice(d) ==
    LET a == vaddr(d)
        n == usize_mul(d.pages, PAGE_SIZE) IN
    IF n.overflow /\ overflow_checks THEN Panic
    ELSE IF a = 0 THEN Panic
    ELSE Slice(a, n.wrapped)

\* Dma::raw_slice called on holder h's buffer; fatal says what a panic of it
\* does.
RawSlice(h, fatal) ==
    LET r == raw_slice(dma[h]) IN
    /\ pc = "running"
    /\ dma[h].live
    /\ last' = Entry(h, "raw_slice", usize(0), "none", <<phys_to_virt_call(dma[h].paddr)>>, r)
    /\ IF r.tag = "panic"
       THEN Panics(fatal)
       ELSE Returns
    /\ UNCHANGED <<dma, granted, lease, freed, halVars, shareVars>>

\* ------------------------------------------------------------ Drop::drop

\* drop passing the length in bytes where the page count belongs.
drop_call_len_in_bytes(d, err) ==
    dma_dealloc(d.paddr, usize_mul(d.pages, PAGE_SIZE).wrapped, err)

\* The H::dma_dealloc call drop makes for buffer d, the Hal returning err.
drop_call(d, err) == dma_dealloc(d.paddr, d.pages, err)

\* assert_eq!(err, 0, "failed to deallocate DMA")
assert_eq_zero(err) == IF err = 0 THEN "ok" ELSE "panic"

\* A drop that leaves the value usable, so that it can be dropped again.
dropped_still_live(d) == d

\* The holder's slot once its buffer has been dropped: the value is gone.
dropped(d) == NoDma

\* drop of holder h's buffer, the Hal returning err, run when the value goes
\* out of use or by unwinding; fatal says what a panic of it does.
Drop(h, err, fatal) ==
    LET d == dma[h]
        out == assert_eq_zero(err) IN
    /\ pc = "running"
    /\ d.live
    /\ last' = Entry(h, "drop", usize(0), "none", <<drop_call(d, err)>>,
                     IF out = "ok" THEN Unit ELSE Panic)
    /\ IF out = "panic"
       THEN Panics(fatal)
       ELSE Returns
    /\ dma' = [dma EXCEPT ![h] = dropped(d)]
    /\ freed' = IF lease[h] \in 1..Len(freed)
                THEN [freed EXCEPT ![lease[h]] = @ + 1]
                ELSE freed
    /\ lease' = [lease EXCEPT ![h] = IF dma'[h].live THEN @ ELSE 0]
    /\ granted' = [granted EXCEPT ![h] = IF dma'[h].live THEN @ ELSE NoGrant]
    /\ UNCHANGED <<halVars, shareVars>>

\* ------------------------------------------------- the Hal's translation

\* The platform changes what phys_to_virt returns for address p.
Remap(p, v) ==
    /\ pc = "running"
    /\ epoch < MaxRemaps
    /\ translate[p] # v
    /\ translate' = [translate EXCEPT ![p] = v]
    /\ epoch' = epoch + 1
    /\ UNCHANGED <<dmaVars, shareVars>>

\* ------------------------------------ share / unshare (copy-based Hal)

\* BufferDirection: the driver may write the buffer.
driver_may_write(dir) == dir \in {"DriverToDevice", "Both"}

\* Every direction taken to let the device write.
device_may_write_always(dir) == dir \in BufferDirection

\* BufferDirection: the device may write the buffer.
device_may_write(dir) == dir \in {"DeviceToDriver", "Both"}

\* The driver writes byte b at index i of its own buffer while it is not shared.
DriverWrite(i, b) ==
    /\ pc = "running"
    /\ shared = "none"
    /\ buffer[i] # b
    /\ buffer' = [buffer EXCEPT ![i] = b]
    /\ unshared' = NoUnshare
    /\ UNCHANGED <<dmaVars, halVars, shadow, shared, orig, written>>

\* H::share(buffer, direction): the Hal copies the buffer into its own region
\* when the driver may have written it, and hands out a zeroed region otherwise.
Share(dir) ==
    /\ pc = "running"
    /\ shared = "none"
    /\ shared' = dir
    /\ shadow' = IF driver_may_write(dir) THEN buffer ELSE [i \in 1..BufLen |-> 0]
    /\ orig' = buffer
    /\ written' = [i \in 1..BufLen |-> -1]
    /\ unshared' = NoUnshare
    /\ UNCHANGED <<dmaVars, halVars, buffer>>

\* The device (or a test corrupting the Hal's copy) writes byte b at index i
\* of the shared region, whatever the direction.
DeviceWrite(i, b) ==
    /\ pc = "running"
    /\ shared # "none"
    /\ shadow[i] # b
    /\ shadow' = [shadow EXCEPT ![i] = b]
    /\ written' = [written EXCEPT ![i] = b]
    /\ UNCHANGED <<dmaVars, halVars, buffer, shared, orig, unshared>>

\* What unshare leaves in the caller's buffer.
unshare_result(dir, buf, region) ==
    IF device_may_write(dir) THEN region ELSE buf

\* H::unshare(paddr, buffer, direction), with the direction of the share.
Unshare ==
    /\ pc = "running"
    /\ shared # "none"
    /\ buffer' = unshare_result(shared, buffer, shadow)
    /\ unshared' = [direction |-> shared, orig |-> orig, written |-> written]
    /\ shared' = "none"
    /\ shadow' = <<>>
    /\ orig' = <<>>
    /\ written' = <<>>
    /\ UNCHANGED <<dmaVars, halVars>>

\* ---------------------------------------------------------- specifications

\* Any operation of the Dma type on holder h's buffer.
DmaOp(h) ==
    \/ \E n \in PageCounts, dir \in BufferDirection, p \in PhysAddr : New(h, n, dir, p)
    \/ Paddr(h)
    \/ Vaddr(h)
    \/ \E fatal \in BOOLEAN : RawSlice(h, fatal)
    \/ \E err \in DeallocStatus, fatal \in BOOLEAN : Drop(h, err, fatal)

\* The platform changing its translation.
HalOp == \E p \in PhysAddr, v \in VirtAddr : Remap(p, v)

\* The caller's direct use of share and unshare on a buffer of its own.
ShareOp ==
    \/ \E i \in 1..BufLen, b \in Bytes : DriverWrite(i, b)
    \/ \E dir \in BufferDirection : Share(dir)
    \/ \E i \in 1..BufLen, b \in Bytes : DeviceWrite(i, b)
    \/ Unshare

Next ==
    \/ \E h \in Holders : DmaOp(h)
    \/ HalOp
    \/ ShareOp

Spec == Init /\ [][Next]_vars

\* Buffers of several holders, under a translation that stays as it is.
NextLifecycle == \E h \in Holders : DmaOp(h)

SpecLifecycle == Init /\ [][NextLifecycle]_vars

\* One buffer, under a translation the platform changes.
NextTranslate ==
    \/ DmaOp(1)
    \/ HalOp

SpecTranslate == Init /\ [][NextTranslate]_vars

\* One buffer, beside a caller-owned buffer shared with the device.
NextShare ==
    \/ DmaOp(1)
    \/ ShareOp

SpecShare == Init /\ [][NextShare]_vars

\* ------------------------------------------------------------------ claims

\* The holder of the most recent operation owns a live buffer.
LastLive == last.holder \in Holders /\ dma[last.holder].live

\* C1: a buffer constructed with a positive page count and dropped as the very
\* next operation has caused exactly one dma_alloc call, with the page count
\* and direction given to Dma::new, and exactly one dma_dealloc call, carrying
\* the address that dma_alloc returned and the same page count.
C1_NewThenDropCallsMatch ==
    (last.op = "drop" /\ last.after.op = "new" /\ last.after.pages # usize(0)) =>
        LET a == last.after IN
        /\ Len(a.calls) = 1
        /\ a.calls[1].fn = "dma_alloc"
        /\ a.calls[1].pages = a.pages
        /\ a.calls[1].direction = a.direction
        /\ Len(last.calls) = 1
        /\ last.calls[1].fn = "dma_dealloc"
        /\ last.calls[1].paddr = a.calls[1].ret
        /\ last.calls[1].pages = a.pages

\* A buffer of one page was constructed and dropped at once.
C1_Witness ==
    /\ last.op = "drop"
    /\ last.after.op = "new"
    /\ last.after.pages = usize(1)
    /\ last.after.direction = "DeviceToDriver"
    /\ last.calls[1].paddr = PAGE_SIZE

\* C2: when dma_alloc returns 0, Dma::new returns Err(DmaError), the holder
\* owns no buffer, the only Hal call made is that dma_alloc, and no
\* dma_dealloc call ever carries the zero address of a failed allocation:
\* a buffer is live only with a non-zero address granted by dma_alloc.
C2_FailedNewNoDealloc ==
    /\ (last.op = "new" /\ last.calls[1].ret = 0) =>
          /\ last.ret = Err("DmaError")
          /\ ~dma[last.holder].live
          /\ lease[last.holder] = 0
          /\ \A i \in 1..Len(last.calls) : last.calls[i].fn # "dma_dealloc"
    /\ \A h \in Holders : dma[h].live => granted[h].paddr # 0
    /\ last.op = "drop" => last.calls[1].paddr # 0

\* A construction with a positive page count failed while the other holder
\* owned a buffer.
C2_Witness ==
    /\ last.op = "new"
    /\ last.ret = Err("DmaError")
    /\ last.pages # usize(0)
    /\ \E h \in Holders : dma[h].live

\* C3 as stated: every live buffer has a non-zero address and a strictly
\* positive page count.
C3_Original ==
    \A h \in Holders : dma[h].live => (dma[h].paddr # 0 /\ dma[h].pages # usize(0))

\* C3, amended: every live buffer has a non-zero address, and its page count is
\* the count given to Dma::new, which is not negative and may be 0.
C3_LiveNonZeroAddr ==
    \A h \in Holders : dma[h].live =>
        /\ dma[h].paddr # 0
        /\ dma[h].pages = granted[h].pages
        /\ \A i \in 1..4 : dma[h].pages[i] \in 0..(LimbBase - 1)

\* A live buffer of zero pages.
C3_Witness ==
    \E h \in Holders : dma[h].live /\ dma[h].pages = usize(0) /\ dma[h].paddr # 0

\* C4: a drop whose dma_dealloc returned non-zero leaves the process aborted
\* and the buffer gone, a drop whose dma_dealloc returned zero leaves it
\* running, and no operation runs once the process has aborted.
C4_Original ==
    [][/\ (last' # last /\ last'.op = "drop" /\ last'.calls[1].ret # 0) =>
              (pc' = "aborted" /\ ~dma'[last'.holder].live)
       /\ (last' # last /\ last'.op = "drop" /\ last'.calls[1].ret = 0) =>
              pc' = "running"
       /\ pc = "aborted" => last' = last]_vars

\* C5: what vaddr returns is what the one phys_to_virt call it made returned
\* for the buffer's address, which is the translation in force at that call
\* (the current one as long as the translation has not changed since); two
\* vaddr calls in a row with no change of translation between them agree.
C5_VaddrIsCurrentTranslation ==
    last.op = "vaddr" =>
        /\ LastLive
        /\ Len(last.calls) = 1
        /\ last.calls[1].fn = "phys_to_virt"
        /\ last.calls[1].paddr = dma[last.holder].paddr
        /\ last.ret = Usize(last.calls[1].ret)
        /\ last.epoch = epoch => last.ret.val = translate[dma[last.holder].paddr]
        /\ (last.after.op = "vaddr" /\ last.after.epoch = last.epoch) =>
              last.ret = last.after.ret

\* Two vaddr calls in a row returned different addresses, the translation
\* having changed between them.
C5_Witness ==
    /\ last.op = "vaddr"
    /\ last.after.op = "vaddr"
    /\ last.after.ret # last.ret
    /\ last.ret.val # dma[last.holder].paddr

\* C6: raw_slice returns a non-null view that starts at the address
\* phys_to_virt returned (what vaddr returns) and whose length in bytes is the
\* page count times PAGE_SIZE, with no overflow.
C6_Original ==
    last.op = "raw_slice" =>
        /\ last.ret.tag = "NonNull"
        /\ last.ret.val # 0
        /\ last.ret.val = last.calls[1].ret
        /\ ~usize_mul(dma[last.holder].pages, PAGE_SIZE).overflow
        /\ last.ret.len = usize_mul(dma[last.holder].pages, PAGE_SIZE).wrapped

\* A step that leaves every buffer that stays alive as it was.
C7_Frame ==
    \A h \in Holders : (dma[h].live /\ dma'[h].live) => dma'[h] = dma[h]

\* C7: from construction to release a buffer's address and page count are
\* those dma_alloc granted and Dma::new was given, no step changes them, and
\* paddr returns the granted address.
C7_PaddrStable ==
    /\ [](\A h \in Holders : dma[h].live =>
              /\ dma[h].paddr = granted[h].paddr
              /\ dma[h].pages = granted[h].pages)
    /\ [](last.op = "paddr" =>
              /\ LastLive
              /\ last.ret = Usize(granted[last.holder].paddr))
    /\ [][C7_Frame]_vars

\* paddr was called on one buffer while every other holder owned a buffer, one
\* of them at another address.
C7_Witness ==
    /\ last.op = "paddr"
    /\ \A h \in Holders : dma[h].live
    /\ \E h \in Holders : dma[h].paddr # dma[last.holder].paddr

\* C8: under the copy-based Hal, after a share with Both or DeviceToDriver and
\* its unshare, every byte the device wrote is in the caller's buffer; after a
\* share with DriverToDevice and its unshare, the caller's buffer is what it
\* was when shared, whatever was written into the Hal's copy.
C8_CopyBackIffDeviceWrites ==
    /\ unshared.direction \in {"Both", "DeviceToDriver"} =>
          \A i \in 1..BufLen :
              unshared.written[i] # -1 => buffer[i] = unshared.written[i]
    /\ unshared.direction = "DriverToDevice" => buffer = unshared.orig

\* A DriverToDevice share was undone after the Hal's copy had been changed.
C8_Witness ==
    /\ unshared.direction = "DriverToDevice"
    /\ \E i \in 1..BufLen :
          unshared.written[i] # -1 /\ unshared.written[i] # unshared.orig[i]

\* A step that is a drop of holder h's buffer.
DropStep(h) == last' # last /\ last'.op = "drop" /\ last'.holder = h

\* The dma_dealloc call of a drop carries the address and page count granted
\* to a buffer that is live and not yet deallocated.
C9_DeallocOfLive ==
    \A h \in Holders : DropStep(h) =>
        /\ dma[h].live
        /\ lease[h] \in 1..Len(freed)
        /\ freed[lease[h]] = 0
        /\ Len(last'.calls) = 1
        /\ last'.calls[1].paddr = granted[h].paddr
        /\ last'.calls[1].pages = granted[h].pages
        /\ granted[h].paddr # 0

\* C9: every dma_dealloc call is for a live, successfully constructed buffer
\* and carries its address and page count; an allocation is deallocated once
\* when its buffer has been dropped and not at all while it is live, so never
\* twice, and when no buffer is left every allocation has been deallocated
\* exactly once.
C9_ExactlyOnceRelease ==
    /\ [][C9_DeallocOfLive]_vars
    /\ [](\A i \in 1..Len(freed) :
              freed[i] = IF \E h \in Holders : dma[h].live /\ lease[h] = i
                         THEN 0 ELSE 1)
    /\ [](\A h, g \in Holders :
              (dma[h].live /\ dma[g].live /\ lease[h] = lease[g]) => h = g)
    /\ []((\A h \in Holders : ~dma[h].live) =>
              \A i \in 1..Len(freed) : freed[i] = 1)

\* MaxAllocs buffers were constructed and all have been dropped, the last of
\* them not right after its construction.
C9_Witness ==
    /\ Len(freed) = MaxAllocs
    /\ \A i \in 1..Len(freed) : freed[i] = 1
    /\ \A h \in Holders : ~dma[h].live
    /\ pc = "running"
    /\ last.op = "drop"
    /\ last.after.op = "none"

\* The Hal calls an operation of the Dma type may make.
C10_CallsOf(e) ==
    CASE e.op = "new" ->
            /\ Len(e.calls) = 1
            /\ e.calls[1].fn = "dma_alloc"
      [] e.op = "paddr" -> e.calls = <<>>
      [] e.op \in {"vaddr", "raw_slice"} ->
            /\ Len(e.calls) = 1
            /\ e.calls[1].fn = "phys_to_virt"
      [] e.op = "drop" ->
            /\ Len(e.calls) = 1
            /\ e.calls[1].fn = "dma_dealloc"
      [] OTHER -> e.calls = <<>>

\* C10: Dma::new makes one dma_alloc call and nothing else, also when it
\* fails; paddr makes no Hal call; vaddr and raw_slice make one phys_to_virt
\* call each; drop makes one dma_dealloc call; no operation of the type calls
\* share or unshare, and none changes the state of an outstanding share.
C10_OnlyNamedPrimitives ==
    /\ [](C10_CallsOf(last))
    /\ [](\A i \in 1..Len(last.calls) : last.calls[i].fn \notin {"share", "unshare"})
    /\ [][last' # last => UNCHANGED shareVars]_vars

\* A construction failed while a share was outstanding and the device had
\* written to the shared region.
C10_Witness ==
    /\ last.op = "new"
    /\ last.ret = Err("DmaError")
    /\ shared = "Both"
    /\ \E i \in 1..BufLen : written[i] # -1

====
